---- MODULE Spec2Model ----
(***************************************************************************)
(* Model of the HTTP request layer: app/apis/config.ts (getApiUrl,         *)
(* API_CONFIG) and app/apis/request.ts (createHeaders, handleResponse,     *)
(* request, download).                                                     *)
(*                                                                         *)
(* Strings.  URLs are sequences of one-character strings, so startsWith,   *)
(* the /\/$/ replace and concatenation are computed character by           *)
(* character.  Messages, MIME types and content-type headers are sequences *)
(* of tokens; String.includes / startsWith on them look for a token.  The  *)
(* source's Chinese literals are written as ASCII tokens:                  *)
(*   "REQUEST_FAILED"  = the literal of request.ts:144,146,198             *)
(*   "DOWNLOAD_FAILED" = the literal of request.ts:113,114,198             *)
(*   "SERVER_ERROR"    = the default of request.ts:33                      *)
(*   "UNAUTHORIZED"    = the default of request.ts:141                     *)
(*   "NO_RESPONSE"     = the fallback of request.ts:193                    *)
(*   "NETWORK_FAILED"  = the literal of request.ts:199,203                 *)
(* JS objects are functions whose DOMAIN is the set of own keys, so        *)
(* `k in obj` is k \in DOMAIN obj and an object spread is Merge.           *)
(***************************************************************************)
EXTENDS Integers, Sequences, FiniteSets, TLC

VARIABLES
    baseURL,        \* API_CONFIG.baseURL
    pc,             \* position of the request() call
    caller,         \* "none", "request" (direct call) or "download"
    config,         \* the RequestConfig of the call
    fullUrl,        \* request.ts:168
    fetchOptions,   \* the options object handed to $fetch.raw (request.ts:171-175)
    response,       \* the FetchResponse $fetch.raw resolved with
    error,          \* the value caught at request.ts:188
    notes,          \* the toast.error messages of the call, in order
    result,         \* how request() ended: returned value or raised error
    dl              \* download(): its filename argument, DOM effects and outcome

vars == <<baseURL, pc, caller, config, fullUrl, fetchOptions, response, error,
          notes, result, dl>>

\* Largest number of consecutive slashes tried at the end of the base address
\* and at the start of a path.
MaxSlashes == 2

---------------------------------------------------------------------------
(* Strings as character sequences (config.ts)                              *)

RECURSIVE Slashes(_)
Slashes(n) == IF n = 0 THEN <<>> ELSE <<"/">> \o Slashes(n - 1)

HttpPrefix == <<"h", "t", "t", "p", ":", "/", "/">>
HttpsPrefix == <<"h", "t", "t", "p", "s", ":", "/", "/">>

\* String.prototype.startsWith
StartsWith(s, p) == Len(s) >= Len(p) /\ SubSeq(s, 1, Len(p)) = p

\* s.replace(/\/$/, ''): removes one slash at the end of the string, if any.
StripTrailingSlash(s) ==
    IF Len(s) > 0 /\ s[Len(s)] = "/" THEN SubSeq(s, 1, Len(s) - 1) ELSE s

getApiUrl(base, path) ==
    IF StartsWith(path, HttpPrefix) \/ StartsWith(path, HttpsPrefix)
    THEN path
    ELSE LET b == StripTrailingSlash(base)
             url == IF StartsWith(path, <<"/">>) THEN path ELSE <<"/">> \o path
         IN  b \o url

API_CONFIG_timeout == 30 * 1000

\* API_CONFIG.baseURL ('http://192.168.57.9:8000', host shortened to "a"); the
\* deployment may override it, so it is tried with trailing slashes as well.
Host == HttpPrefix \o <<"a">>
Bases == {Host \o Slashes(n) : n \in 0..MaxSlashes}
PathCores == {<<"x">>, <<"x", "/", "y">>}
RelativePaths == {Slashes(n) \o c : n \in 0..MaxSlashes, c \in PathCores}
AbsolutePaths == {HttpPrefix \o <<"b", "/", "x">>, HttpsPrefix \o <<"b">>}
Paths == RelativePaths \cup AbsolutePaths

---------------------------------------------------------------------------
(* Token strings and JS objects                                            *)

\* String.prototype.includes for a marker that is one token
Includes(s, tok) == \E i \in 1..Len(s) : s[i] = tok

\* String.prototype.startsWith for a prefix that is one token
StartsWithToken(s, tok) == Len(s) > 0 /\ s[1] = tok

\* {...a, ...b}
Merge(a, b) ==
    [k \in DOMAIN a \cup DOMAIN b |-> IF k \in DOMAIN b THEN b[k] ELSE a[k]]

EmptyObject == <<>>

\* obj.msg || fallback  (a missing msg and '' are both falsy)
MsgOr(obj, fallback) ==
    IF "msg" \in DOMAIN obj /\ obj.msg # <<>> THEN obj.msg ELSE fallback

\* obj.success is truthy
SuccessTruthy(obj) == "success" \in DOMAIN obj /\ obj.success

---------------------------------------------------------------------------
(* What the transport can deliver                                          *)

X == [kind |-> "prim", v |-> "X"]

SuccessParts == {EmptyObject, [success |-> TRUE], [success |-> FALSE]}
CodeParts == {EmptyObject, [code |-> "str:401"], [code |-> "num:500"]}
MsgParts == {EmptyObject, [msg |-> <<>>], [msg |-> <<"M">>],
             [msg |-> <<"M", "REQUEST_FAILED">>]}
DataParts == {EmptyObject, [data |-> X]}
SkipParts == {EmptyObject, [skipResponseInterceptor |-> TRUE]}

Objects ==
    {a @@ b @@ c @@ d @@ e :
        a \in SuccessParts, b \in CodeParts, c \in MsgParts,
        d \in DataParts, e \in SkipParts}

\* JSON.parse(text) of a Blob's text: a SyntaxError, or the parsed value
ParsedTexts ==
    {[ok |-> FALSE],
     [ok |-> TRUE, value |-> [kind |-> "null"]],
     [ok |-> TRUE, value |-> [kind |-> "prim", v |-> "5"]]}
    \cup {[ok |-> TRUE, value |-> [kind |-> "object", obj |-> o]] :
            o \in {[success |-> FALSE, msg |-> <<"M">>],
                   [success |-> FALSE],
                   [success |-> TRUE, data |-> X]}}

BlobTypes == {<<>>, <<"application/pdf">>, <<"application/json">>,
              <<"application/json", ";charset=utf-8">>}

Blobs == {[kind |-> "blob", type |-> t, text |-> p] :
            t \in BlobTypes, p \in ParsedTexts}

Bodies ==
    {[kind |-> "null"], [kind |-> "prim", v |-> "text"]}
    \cup Blobs
    \cup {[kind |-> "object", obj |-> o] : o \in Objects}

ContentTypes == {<<>>, <<"application/json">>, <<"application/octet-stream">>}

Responses ==
    {[status |-> 200, contentType |-> ct, _data |-> d] :
        ct \in ContentTypes, d \in Bodies}

Err(hasResponse, status, message) ==
    [hasResponse |-> hasResponse, status |-> status, message |-> message]

\* FetchError of a non-2xx answer: it carries the response
StatusErrors == {Err(TRUE, s, <<"FetchError">>) : s \in {404, 500, 418}}

\* Errors without a response: the message is whatever the runtime gives
NetworkErrors ==
    {Err(FALSE, 0, m) :
        m \in {<<>>, <<"Failed to fetch">>, <<"proxy", "REQUEST_FAILED">>,
               <<"DOWNLOAD_FAILED">>}}

TimeoutError == Err(FALSE, 0, <<"timeout">>)

---------------------------------------------------------------------------
(* request.ts                                                              *)

StatusCodeMessage ==
    (200 :> <<"STATUS_200">>) @@ (201 :> <<"STATUS_201">>) @@
    (202 :> <<"STATUS_202">>) @@ (204 :> <<"STATUS_204">>) @@
    (400 :> <<"STATUS_400">>) @@ (401 :> <<"STATUS_401">>) @@
    (403 :> <<"STATUS_403">>) @@ (404 :> <<"STATUS_404">>) @@
    (408 :> <<"STATUS_408">>) @@ (500 :> <<"STATUS_500">>) @@
    (501 :> <<"STATUS_501">>) @@ (502 :> <<"STATUS_502">>) @@
    (503 :> <<"STATUS_503">>) @@ (504 :> <<"STATUS_504">>)

\* The message handleError(msg) hands to toast.error
handleError(msg) == IF msg # <<>> THEN msg ELSE <<"SERVER_ERROR">>

getToken == "null"
getTenantId == "null"

createHeaders(cfg) ==
    LET base == Merge([Content_Type |-> "application/json"],
                      IF "headers" \in DOMAIN cfg.rest
                      THEN cfg.rest.headers ELSE EmptyObject)
        withToken == IF getToken # "null"
                     THEN Merge(base, [Authorization |-> getToken]) ELSE base
    IN  IF getTenantId # "null"
        THEN Merge(withToken, [X_Tenant_Id |-> getTenantId]) ELSE withToken

\* The synthetic success envelope of request.ts:122-127, 153-158, 178-183
Envelope(d) ==
    [kind |-> "object",
     obj |-> [success |-> TRUE, code |-> "num:200", msg |-> <<"success">>,
              data |-> d]]

Returned(toasts, value) == [toasts |-> toasts, threw |-> FALSE, value |-> value]
Threw(toasts, message) ==
    [toasts |-> toasts, threw |-> TRUE, err |-> Err(FALSE, 0, message)]

\* request.ts:108-120: the toasts of the JSON-blob check.  The throw of line
\* 114 is inside the try whose catch (117-119) is empty, so nothing leaves
\* the block.
BlobErrorToasts(data) ==
    IF data.kind = "blob" /\ StartsWithToken(data.type, "application/json")
    THEN IF ~data.text.ok
         THEN <<>>                         \* JSON.parse throws
         ELSE LET errorData == data.text.value
              IN  CASE errorData.kind = "null" -> <<>>   \* TypeError
                    [] errorData.kind = "prim" ->
                          <<handleError(<<"DOWNLOAD_FAILED">>)>>
                    [] OTHER ->
                          IF ~SuccessTruthy(errorData.obj)
                          THEN <<handleError(MsgOr(errorData.obj,
                                                   <<"DOWNLOAD_FAILED">>))>>
                          ELSE <<>>
    ELSE <<>>

\* The mutant: the `success in data` branch (request.ts:131-150) is left out,
\* so every body that is no Blob is wrapped.
handleResponse_AlwaysWrap(resp) ==
    LET data == resp._data
    IN  IF Includes(resp.contentType, "application/octet-stream")
           \/ data.kind = "blob"
        THEN Returned(BlobErrorToasts(data), Envelope(data))
        ELSE Returned(<<>>, Envelope(data))

handleResponse(resp) ==
    LET data == resp._data
    IN  IF data.kind = "object" /\ "skipResponseInterceptor" \in DOMAIN data.obj
        THEN Returned(<<>>, data)
        ELSE IF Includes(resp.contentType, "application/octet-stream")
                \/ data.kind = "blob"
        THEN Returned(BlobErrorToasts(data), Envelope(data))
        ELSE IF data.kind = "object" /\ "success" \in DOMAIN data.obj
        THEN LET apiRes == data.obj
             IN  IF ~apiRes.success
                 THEN Threw(
                        IF "code" \in DOMAIN apiRes
                           /\ apiRes.code \in {"str:401", "num:401"}
                        THEN <<handleError(MsgOr(apiRes, <<"UNAUTHORIZED">>))>>
                        ELSE <<handleError(MsgOr(apiRes, <<"REQUEST_FAILED">>))>>,
                        MsgOr(apiRes, <<"REQUEST_FAILED">>))
                 ELSE Returned(<<>>, data)
        ELSE Returned(<<>>, Envelope(data))

\* request.ts:188-205: the toasts of the catch block
CatchToasts(skipErrorHandler, e) ==
    IF ~skipErrorHandler
    THEN IF e.hasResponse
         THEN <<handleError(IF e.status \in DOMAIN StatusCodeMessage
                            THEN StatusCodeMessage[e.status]
                            ELSE <<"NO_RESPONSE">>)>>
         ELSE IF e.message # <<>>
         THEN IF ~Includes(e.message, "REQUEST_FAILED")
                 /\ ~Includes(e.message, "DOWNLOAD_FAILED")
              THEN <<handleError(e.message)>>
              ELSE <<>>
         ELSE <<handleError(<<"NETWORK_FAILED">>)>>
    ELSE <<>>

\* The options object of request.ts:171-175: {method, headers, ...restConfig}.
\* restConfig is config without url, method and the two skip flags
\* (request.ts:165), so it still holds the caller's headers when given.
FetchOptions(cfg) ==
    Merge([method |-> cfg.method, headers |-> createHeaders(cfg)], cfg.rest)

\* The mutant: the filename is used as given, without the fallback.
SaveName_NoFallback(filename) == filename

\* download(): filename || 'download'
SaveName(filename) ==
    IF filename \in {"undefined", ""} THEN "download" ELSE filename

Ev(op, arg) == [op |-> op, arg |-> arg]

\* download(), request.ts:284-294: the browser calls made for one response
SaveEffects(resp, filename) ==
    IF resp.obj.success /\ resp.obj.data.kind = "blob"
    THEN <<Ev("createObjectURL", "blob"),
           Ev("createElement", "a"),
           Ev("setHref", "downloadUrl"),
           Ev("setDownload", SaveName(filename)),
           Ev("appendChild", "link"),
           Ev("click", SaveName(filename)),
           Ev("removeChild", "link"),
           Ev("revokeObjectURL", "downloadUrl")>>
    ELSE <<>>

---------------------------------------------------------------------------
(* Inputs                                                                  *)

HeaderParts ==
    {EmptyObject, [headers |-> EmptyObject], [headers |-> [X_Trace |-> "1"]],
     [headers |-> [Content_Type |-> "multipart/form-data"]]}
TimeoutParts == {EmptyObject, [timeout |-> 5000]}
RestConfigs == {h @@ t : h \in HeaderParts, t \in TimeoutParts}

Configs ==
    {[url |-> u, method |-> "GET", skipErrorHandler |-> seh,
      skipResponseInterceptor |-> sri, rest |-> r] :
        u \in Paths, seh \in BOOLEAN, sri \in BOOLEAN, r \in RestConfigs}

Filenames == {"undefined", "", "report.csv"}

\* The config download() builds (request.ts:276-282)
DownloadConfig(url) ==
    [url |-> url, method |-> "GET", skipErrorHandler |-> FALSE,
     skipResponseInterceptor |-> TRUE,
     rest |-> [params |-> "undefined", responseType |-> "blob"]]

\* The bodies the transport can hand over for the given options: with
\* responseType 'blob' the body is read as a Blob, or is absent (a reply
\* without a body, such as 204).
TransportResponses(opts) ==
    IF "responseType" \in DOMAIN opts /\ opts.responseType = "blob"
    THEN {r \in Responses : r._data.kind \in {"blob", "null"}}
    ELSE Responses

NoResult == [kind |-> "none"]
NoResponse == [status |-> 0]
NoError == Err(FALSE, -1, <<>>)
NoDownload == [active |-> FALSE, filename |-> "undefined", events |-> <<>>,
               outcome |-> "none"]

---------------------------------------------------------------------------
(* The state machine: one call of request() or download()                  *)

Init ==
    /\ baseURL \in Bases
    /\ pc = "idle"
    /\ caller = "none"
    /\ config = [url |-> <<>>, method |-> "GET", skipErrorHandler |-> FALSE,
                 skipResponseInterceptor |-> FALSE, rest |-> EmptyObject]
    /\ fullUrl = <<>>
    /\ fetchOptions = EmptyObject
    /\ response = NoResponse
    /\ error = NoError
    /\ notes = <<>>
    /\ result = NoResult
    /\ dl = NoDownload

\* request.ts:165-171: up to the await of $fetch.raw
Start(cfg) ==
    /\ config' = cfg
    /\ fullUrl' = getApiUrl(baseURL, cfg.url)
    /\ fetchOptions' = FetchOptions(cfg)
    /\ pc' = "fetch"

\* A direct call of request(config)
Request ==
    /\ pc = "idle"
    /\ \E cfg \in Configs : Start(cfg)
    /\ caller' = "request"
    /\ UNCHANGED <<baseURL, response, error, notes, result, dl>>

\* download(url, params, filename), request.ts:274-282
Download ==
    /\ pc = "idle"
    /\ \E u \in Paths, f \in Filenames :
          /\ Start(DownloadConfig(u))
          /\ dl' = [dl EXCEPT !.active = TRUE, !.filename = f]
    /\ caller' = "download"
    /\ UNCHANGED <<baseURL, response, error, notes, result>>

\* $fetch.raw resolves
FetchResolve ==
    /\ pc = "fetch"
    /\ \E r \in TransportResponses(fetchOptions) : response' = r
    /\ pc' = "resolved"
    /\ UNCHANGED <<baseURL, caller, config, fullUrl, fetchOptions, error, notes,
                   result, dl>>

\* $fetch.raw rejects: a non-2xx answer or a network failure
FetchReject ==
    /\ pc = "fetch"
    /\ \E e \in StatusErrors \cup NetworkErrors : error' = e
    /\ pc' = "catch"
    /\ UNCHANGED <<baseURL, caller, config, fullUrl, fetchOptions, response,
                   notes, result, dl>>

\* $fetch.raw rejects because the timeout of its options ran out; without a
\* timeout option the call stays pending
FetchTimeout ==
    /\ pc = "fetch"
    /\ "timeout" \in DOMAIN fetchOptions
    /\ error' = TimeoutError
    /\ pc' = "catch"
    /\ UNCHANGED <<baseURL, caller, config, fullUrl, fetchOptions, response,
                   notes, result, dl>>

\* request.ts:177-184
SkipInterceptor ==
    /\ pc = "resolved"
    /\ config.skipResponseInterceptor
    /\ result' = [kind |-> "returned", value |-> Envelope(response._data)]
    /\ pc' = "done"
    /\ UNCHANGED <<baseURL, caller, config, fullUrl, fetchOptions, response,
                   error, notes, dl>>

\* request.ts:186: return await handleResponse(response)
HandleResponse ==
    /\ pc = "resolved"
    /\ ~config.skipResponseInterceptor
    /\ LET r == handleResponse(response)
       IN  /\ notes' = notes \o r.toasts
           /\ IF r.threw
              THEN /\ error' = r.err
                   /\ pc' = "catch"
                   /\ UNCHANGED result
              ELSE /\ result' = [kind |-> "returned", value |-> r.value]
                   /\ pc' = "done"
                   /\ UNCHANGED error
    /\ UNCHANGED <<baseURL, caller, config, fullUrl, fetchOptions, response, dl>>

\* request.ts:188-208
Catch ==
    /\ pc = "catch"
    /\ notes' = notes \o CatchToasts(config.skipErrorHandler, error)
    /\ result' = [kind |-> "raised", err |-> error]
    /\ pc' = "done"
    /\ UNCHANGED <<baseURL, caller, config, fullUrl, fetchOptions, response,
                   error, dl>>

\* download() after its await: request.ts:284-294
DownloadSave ==
    /\ pc = "done"
    /\ caller = "download"
    /\ dl.outcome = "none"
    /\ result.kind = "returned"
    /\ dl' = [dl EXCEPT !.events = SaveEffects(result.value, dl.filename),
                        !.outcome = "resolved"]
    /\ UNCHANGED <<baseURL, pc, caller, config, fullUrl, fetchOptions, response,
                   error, notes, result>>

\* download(): request.ts:296-299
DownloadCatch ==
    /\ pc = "done"
    /\ caller = "download"
    /\ dl.outcome = "none"
    /\ result.kind = "raised"
    /\ dl' = [dl EXCEPT !.outcome = "rejected"]
    /\ UNCHANGED <<baseURL, pc, caller, config, fullUrl, fetchOptions, response,
                   error, notes, result>>

Next ==
    \/ Request
    \/ Download
    \/ FetchResolve
    \/ FetchReject
    \/ FetchTimeout
    \/ SkipInterceptor
    \/ HandleResponse
    \/ Catch
    \/ DownloadSave
    \/ DownloadCatch

Spec == Init /\ [][Next]_vars

---------------------------------------------------------------------------
(* Vocabulary of the properties                                            *)

RECURSIVE TrimLeadingSlashes(_)
TrimLeadingSlashes(s) ==
    IF Len(s) > 0 /\ s[1] = "/" THEN TrimLeadingSlashes(Tail(s)) ELSE s

RECURSIVE TrimTrailingSlashes(_)
TrimTrailingSlashes(s) ==
    IF Len(s) > 0 /\ s[Len(s)] = "/"
    THEN TrimTrailingSlashes(SubSeq(s, 1, Len(s) - 1)) ELSE s

\* m occurs in n as a run of consecutive tokens
ContainsMsg(n, m) ==
    \E i \in 0..(Len(n) - Len(m)) : SubSeq(n, i + 1, i + Len(m)) = m

Resolved == response.status = 200
IsOctetStream == Includes(response.contentType, "application/octet-stream")
BodyIsObject == Resolved /\ response._data.kind = "object"

\* The body is {success: false, msg: M, ...} with M non-empty, is no Blob,
\* has no skipResponseInterceptor key and is not served as a byte stream.
StructuredFailure ==
    /\ BodyIsObject
    /\ ~IsOctetStream
    /\ {"success", "msg"} \subseteq DOMAIN response._data.obj
    /\ "skipResponseInterceptor" \notin DOMAIN response._data.obj
    /\ ~response._data.obj.success
    /\ response._data.obj.msg # <<>>

\* The body is a Blob of type application/json whose parsed text is an
\* object with success false.
JsonErrorBlob ==
    /\ Resolved
    /\ response._data.kind = "blob"
    /\ StartsWithToken(response._data.type, "application/json")
    /\ response._data.text.ok
    /\ response._data.text.value.kind = "object"
    /\ ~SuccessTruthy(response._data.text.value.obj)

\* The body is {success: true, data: X, ...}
StructuredSuccess ==
    /\ BodyIsObject
    /\ {"success", "data"} \subseteq DOMAIN response._data.obj
    /\ response._data.obj.success

IsEnvelope(v) ==
    v.kind = "object" /\ {"success", "code", "msg", "data"} \subseteq DOMAIN v.obj

Clicks == {i \in DOMAIN dl.events : dl.events[i].op = "click"}

ExpectedSaveName ==
    IF dl.filename = "undefined" \/ dl.filename = "" THEN "download"
    ELSE dl.filename

\* One link click under the expected name, and the object URL created for
\* it is revoked after the click.
OneSaveReleased ==
    /\ Cardinality(Clicks) = 1
    /\ \A i \in Clicks : dl.events[i].arg = ExpectedSaveName
    /\ \A i \in DOMAIN dl.events :
          dl.events[i].op = "setDownload" => dl.events[i].arg = ExpectedSaveName
    /\ \E c \in DOMAIN dl.events, k \in Clicks, r \in DOMAIN dl.events :
          /\ c < k /\ k < r
          /\ dl.events[c].op = "createObjectURL"
          /\ dl.events[r].op = "revokeObjectURL"

---------------------------------------------------------------------------
(* Properties                                                              *)

\* C1: a call with both skip flags unset whose body is {success:false,
\* msg:M}, M non-empty, ends with exactly one notification, which contains
\* M, and raises an error carrying M.
C1_ExactlyOneNotification ==
    (pc = "done" /\ ~config.skipErrorHandler
        /\ ~config.skipResponseInterceptor /\ StructuredFailure)
    => /\ Len(notes) = 1
       /\ ContainsMsg(notes[1], response._data.obj.msg)
       /\ result.kind = "raised"
       /\ result.err.message = response._data.obj.msg

\* C2: with skipErrorHandler set no notification is ever triggered, whatever
\* the failure kind, and every failing call still raises.
C2_SkipErrorHandlerSilent ==
    (pc = "done" /\ config.skipErrorHandler)
    => /\ notes = <<>>
       /\ (\/ error # NoError
           \/ (~config.skipResponseInterceptor
                 /\ (StructuredFailure \/ JsonErrorBlob)))
          => result.kind = "raised"

\* C3: a call that triggered a failure notification ends by raising, never
\* by returning an envelope.
C3_NotifiedThenRaised ==
    (pc = "done" /\ notes # <<>>) => result.kind = "raised"

\* C4: with skipResponseInterceptor unset, whatever body the transport
\* delivers, a call that returns returns the shape {success, code, msg,
\* data}.
C4_EnvelopeOrError ==
    (pc = "done" /\ ~config.skipResponseInterceptor /\ result.kind = "returned")
    => IsEnvelope(result.value)

\* C5: for a relative path the resolved URL is the base without its
\* trailing slashes, one slash, and the path without its leading slashes.
C5_ExactlyOneSlash ==
    (pc # "idle" /\ ~StartsWith(config.url, HttpPrefix)
        /\ ~StartsWith(config.url, HttpsPrefix))
    => fullUrl = TrimTrailingSlashes(baseURL) \o <<"/">>
                    \o TrimLeadingSlashes(config.url)

\* C6 as stated: with skipResponseInterceptor unset, a body {success:true,
\* data:X} is returned unchanged, so the result's data is X, and nothing is
\* notified.
C6_SuccessUnchanged_AsStated ==
    (pc = "done" /\ ~config.skipResponseInterceptor /\ StructuredSuccess)
    => /\ result.kind = "returned"
       /\ result.value = response._data
       /\ result.value.obj.data = response._data.obj.data
       /\ notes = <<>>

\* C6 as amended: the same, for a response whose content-type does not
\* include application/octet-stream.
C6_SuccessUnchanged ==
    (pc = "done" /\ ~config.skipResponseInterceptor /\ StructuredSuccess
        /\ ~IsOctetStream)
    => /\ result.kind = "returned"
       /\ result.value = response._data
       /\ result.value.obj.data = response._data.obj.data
       /\ notes = <<>>

C6_Witness ==
    /\ pc = "done" /\ ~config.skipResponseInterceptor /\ StructuredSuccess
    /\ ~IsOctetStream
    /\ result.kind = "returned"
    /\ result.value.obj.data = X

\* C7 as stated: a download whose request succeeds triggers exactly one
\* save, under the given non-empty filename or "download", and revokes the
\* object URL after the click; a download whose request raises saves
\* nothing and raises.
C7_DownloadSavesOnce_AsStated ==
    (caller = "download" /\ dl.outcome # "none")
    => /\ result.kind = "returned"
            => (dl.outcome = "resolved" /\ OneSaveReleased)
       /\ result.kind = "raised"
            => (dl.outcome = "rejected" /\ Clicks = {})

\* C7 as amended: exactly one save when the request succeeds with a Blob
\* body; when it succeeds with any other body nothing is saved and download
\* returns normally; when it raises nothing is saved and download raises.
C7_DownloadSavesOnce ==
    (caller = "download" /\ dl.outcome # "none")
    => /\ (result.kind = "returned" /\ response._data.kind = "blob")
            => (dl.outcome = "resolved" /\ OneSaveReleased)
       /\ (result.kind = "returned" /\ response._data.kind # "blob")
            => (dl.outcome = "resolved" /\ dl.events = <<>>)
       /\ result.kind = "raised"
            => (dl.outcome = "rejected" /\ Clicks = {})

C7_Witness ==
    /\ caller = "download" /\ dl.outcome = "resolved"
    /\ dl.filename = "report.csv"
    /\ response._data.kind = "blob"
    /\ Cardinality(Clicks) = 1
    /\ dl.events[Len(dl.events)].op = "revokeObjectURL"

\* C8: the headers passed to the transport are Content-Type:
\* application/json merged with the caller's headers, the caller winning
\* only for the keys it supplies.
C8_HeadersMerged ==
    pc # "idle"
    => fetchOptions.headers =
          Merge([Content_Type |-> "application/json"],
                IF "headers" \in DOMAIN config.rest
                THEN config.rest.headers ELSE EmptyObject)

\* C9: a call that supplies no timeout passes the configured timeout
\* API_CONFIG.timeout to the transport.
C9_TimeoutConfigured ==
    (pc # "idle" /\ "timeout" \notin DOMAIN config.rest)
    => /\ "timeout" \in DOMAIN fetchOptions
       /\ fetchOptions.timeout = API_CONFIG_timeout

\* C10: with skipErrorHandler unset, every call that raises has triggered
\* at least one notification.
C10_RaisedImpliesNotified ==
    (pc = "done" /\ ~config.skipErrorHandler /\ result.kind = "raised")
    => Len(notes) >= 1

====
